---- MODULE Spec2Model ----
(***************************************************************************)
(* A model of the expression / placeholder composition engine of the sq    *)
(* query builder: expr.ToSQL, the map predicates (Eq, NotEq, Lt-family,    *)
(* Like-family), the And/Or conjunctions, appendToSQL, DebugSQLizer, the   *)
(* Update statement renderer and the Case expression with its buffer.       *)
(*                                                                         *)
(* A text (Go string) is a sequence of one-character strings, so that the  *)
(* byte-wise scans of the code ("?" markers, "??" escapes) are modelled    *)
(* character by character.  A render result is the triple (sql, args, err) *)
(* of the Go functions, plus argsNil, which tells a nil argument slice     *)
(* from an empty one.                                                       *)
(***************************************************************************)
EXTENDS Integers, Sequences, FiniteSets, TLC

VARIABLES frag, d, op, res

vars == <<frag, d, op, res>>

(***************************************************************************)
(* Bounds of the model.                                                     *)
(***************************************************************************)
\* plain bound values are the integers 1..MaxVal
MaxVal == 2
\* list values (slices, arrays) have at most MaxList elements
MaxList == 2
\* an Update statement is built with at most MaxSet Set clauses
MaxSet == 2
\* ... and at most MaxWhere Where parts
MaxWhere == 1
\* an Expr input has at most MaxArgs arguments
MaxArgs == 2
\* an And / Or input has at most MaxParts children
MaxParts == 2
\* a Case expression has at most MaxWhen WHEN parts
MaxWhen == 2
\* appendToSQL is called on at most MaxAppend parts
MaxAppend == 2
\* the most WriteString / WriteSQL calls on one sqlizerBuffer
MaxCalls == 3

(***************************************************************************)
(* Errors.                                                                  *)
(***************************************************************************)
NoErr == "nil"
ErrLikeNull == "cannot use null with like operators"
ErrLikeList == "cannot use array or slice with like operators"
ErrLtNull == "cannot use null with less than or greater than operators"
ErrLtList == "cannot use array or slice with less than or greater than operators"
ErrValuer == "driver.Valuer error"
ErrNoTable == "update statements must specify a table"
ErrNoSet == "update statements must have at least one Set clause"

(***************************************************************************)
(* Texts.                                                                   *)
(***************************************************************************)
sqlTrue == <<"(", "1", "=", "1", ")">>
sqlFalse == <<"(", "1", "=", "0", ")">>

\* strings.Index(s, "?"): the 0-based index of the first "?" of s, or -1
RECURSIVE IndexFrom(_, _)
IndexFrom(s, i) ==
    IF i > Len(s) THEN -1
    ELSE IF s[i] = "?" THEN i - 1
    ELSE IndexFrom(s, i + 1)

Index(s) == IndexFrom(s, 1)

\* Go's s[from:] and s[:to] on 0-based offsets
SliceFrom(s, from) == SubSeq(s, from + 1, Len(s))

SliceTo(s, to) == SubSeq(s, 1, to)

\* strings.Join(parts, sep)
RECURSIVE Join(_, _)
Join(parts, sep) ==
    IF Len(parts) = 0 THEN <<>>
    ELSE IF Len(parts) = 1 THEN parts[1]
    ELSE parts[1] \o sep \o Join(Tail(parts), sep)

(***************************************************************************)
(* Values.  A bind value is a tagged record; the tag t is the dynamic type *)
(* the code switches on.                                                    *)
(***************************************************************************)
Scalar(n) == [t |-> "scalar", v |-> n]

Nil == [t |-> "nil"]

\* a slice or array of plain values
List(xs) == [t |-> "list", elems |-> xs]

\* a []byte, which driver.IsValue accepts
Bytes(xs) == [t |-> "bytes", elems |-> xs]

\* a non-nil pointer to x, and a nil pointer
Ptr(x) == [t |-> "ptr", elem |-> x]

NilPtr == [t |-> "nilptr"]

\* a driver.Valuer whose Value() returns (x, e)
Valuer(x, e) == [t |-> "valuer", val |-> x, verr |-> e]

\* Expr(sql, args...)
Expr(sql, args) == [t |-> "expr", sql |-> sql, args |-> args]

\* the map predicates; m is the Go map, iter the order in which this
\* render's "range" statement visits the keys of m
MapFrag(t, m, iter) == [t |-> t, m |-> m, iter |-> iter]

\* And{...} / Or{...}
Conj(t, parts) == [t |-> t, parts |-> parts]

EqKinds == {"Eq", "NotEq"}

LtKinds == {"Lt", "LtOrEq", "Gt", "GtOrEq"}

LikeKinds == {"Like", "NotLike", "ILike", "NotILike"}

ConjKinds == {"And", "Or"}

\* arg.(SQLizer)
IsSQLizer(x) == x.t \in {"expr", "wherePart", "part"} \cup EqKinds \cup LtKinds \cup LikeKinds \cup ConjKinds

\* the element of a one-element set: The({e(x) : x \in {v}}) is e(v), with v
\* evaluated once
The(S) == CHOOSE x \in S : TRUE

\* a render result
Result(sql, args, argsNil, err) ==
    [sql |-> sql, args |-> args, argsNil |-> argsNil, err |-> err]

(***************************************************************************)
(* Map keys and their order.                                                *)
(***************************************************************************)
\* the byte value of the characters that occur in map keys
Code == [c \in {"?", "B", "a", "b", "c"} |->
            CASE c = "?" -> 63
              [] c = "B" -> 66
              [] c = "a" -> 97
              [] c = "b" -> 98
              [] c = "c" -> 99]

\* Go's s < t on strings: byte-wise lexicographic order
RECURSIVE StrLess(_, _)
StrLess(s, t) ==
    IF Len(t) = 0 THEN FALSE
    ELSE IF Len(s) = 0 THEN TRUE
    ELSE IF Code[s[1]] # Code[t[1]] THEN Code[s[1]] < Code[t[1]]
    ELSE StrLess(Tail(s), Tail(t))

\* one step of sort.Strings: k put in its place in the sorted sequence ks
RECURSIVE InsertSorted(_, _)
InsertSorted(k, ks) ==
    IF Len(ks) = 0 THEN <<k>>
    ELSE IF StrLess(ks[1], k) THEN <<ks[1]>> \o InsertSorted(k, Tail(ks))
    ELSE <<k>> \o ks

\* sort.Strings(keys)
RECURSIVE SortStrings(_)
SortStrings(keys) ==
    IF Len(keys) = 0 THEN <<>>
    ELSE InsertSorted(keys[1], SortStrings(Tail(keys)))

\* the keys left in range order
getSortedKeysUnsorted(iter) == iter

\* getSortedKeys(exp): the keys in range order, then sorted
getSortedKeys(iter) == SortStrings(iter)

\* Placeholders(n): "?,?,...,?" with n markers
RECURSIVE Placeholders(_)
Placeholders(n) ==
    IF n < 1 THEN <<>>
    ELSE IF n = 1 THEN <<"?">>
    ELSE <<"?", ",">> \o Placeholders(n - 1)

\* isListType(val): a slice or an array that is not a driver.Value ([]byte)
isListType(val) == val.t = "list"

\* append(a, xs...) is nil exactly when a is nil and xs is empty
AppendNil(aNil, xs) == aNil /\ Len(xs) = 0

(***************************************************************************)
(* Eq.toSQL                                                                 *)
(***************************************************************************)
\* no unwrapping: a pointer is compared with nil as it is
EqDerefNone(val) == val

\* the pointer unwrapping of Eq.toSQL: reflect.ValueOf(val).Kind() == Ptr
EqDeref(val) ==
    IF val.t = "nilptr" THEN Nil
    ELSE IF val.t = "ptr" THEN val.elem
    ELSE val

\* the empty-list literal not swapped for the negated variant
EqClauseEmptyNotSwapped(key, val, useNotOpr) ==
    LET equalOpr == IF useNotOpr THEN <<"<", ">">> ELSE <<"=">>
        inOpr == IF useNotOpr THEN <<"N", "O", "T", " ", "I", "N">> ELSE <<"I", "N">>
        nullOpr == IF useNotOpr THEN <<"I", "S", " ", "N", "O", "T">> ELSE <<"I", "S">>
        inEmptyExpr == sqlFalse
    IN  IF val.t = "nil"
        THEN [expr |-> key \o <<" ">> \o nullOpr \o <<" ", "N", "U", "L", "L">>, args |-> <<>>, alloc |-> FALSE]
        ELSE IF isListType(val)
        THEN IF Len(val.elems) = 0
             THEN [expr |-> inEmptyExpr, args |-> <<>>, alloc |-> TRUE]
             ELSE [expr |-> key \o <<" ">> \o inOpr \o <<" ", "(">> \o Placeholders(Len(val.elems)) \o <<")">>,
                   args |-> val.elems, alloc |-> TRUE]
        ELSE [expr |-> key \o <<" ">> \o equalOpr \o <<" ", "?">>, args |-> <<val>>, alloc |-> TRUE]

\* the clause and the arguments of one key whose unwrapped value is val:
\* the if / else after the pointer unwrapping
EqClause(key, val, useNotOpr) ==
    LET equalOpr == IF useNotOpr THEN <<"<", ">">> ELSE <<"=">>
        inOpr == IF useNotOpr THEN <<"N", "O", "T", " ", "I", "N">> ELSE <<"I", "N">>
        nullOpr == IF useNotOpr THEN <<"I", "S", " ", "N", "O", "T">> ELSE <<"I", "S">>
        inEmptyExpr == IF useNotOpr THEN sqlTrue ELSE sqlFalse
    IN  IF val.t = "nil"
        THEN [expr |-> key \o <<" ">> \o nullOpr \o <<" ", "N", "U", "L", "L">>, args |-> <<>>, alloc |-> FALSE]
        ELSE IF isListType(val)
        THEN IF Len(val.elems) = 0
             THEN [expr |-> inEmptyExpr, args |-> <<>>, alloc |-> TRUE]
             ELSE [expr |-> key \o <<" ">> \o inOpr \o <<" ", "(">> \o Placeholders(Len(val.elems)) \o <<")">>,
                   args |-> val.elems, alloc |-> TRUE]
        ELSE [expr |-> key \o <<" ">> \o equalOpr \o <<" ", "?">>, args |-> <<val>>, alloc |-> TRUE]

\* the loop over sortedKeys, from the key at position i on
RECURSIVE EqLoop(_, _, _, _, _, _, _)
EqLoop(m, keys, i, useNotOpr, exprs, args, argsNil) ==
    IF i > Len(keys) THEN Result(Join(exprs, <<" ", "A", "N", "D", " ">>), args, argsNil, NoErr)
    ELSE
        LET key == keys[i]
            v0 == m[key]
        IN  IF v0.t = "valuer" /\ v0.verr # NoErr
            THEN Result(<<>>, args, argsNil, v0.verr)
            ELSE
                LET c == EqClause(key, EqDeref(IF v0.t = "valuer" THEN v0.val ELSE v0), useNotOpr)
                IN  EqLoop(m, keys, i + 1, useNotOpr, Append(exprs, c.expr), args \o c.args,
                           argsNil /\ ~c.alloc)

EqToSQL(e, useNotOpr) ==
    IF Cardinality(DOMAIN e.m) = 0
    THEN Result(sqlTrue, <<>>, TRUE, NoErr)
    ELSE EqLoop(e.m, getSortedKeys(e.iter), 1, useNotOpr, <<>>, <<>>, TRUE)

(***************************************************************************)
(* Lt.toSQL and Like.toSQL                                                  *)
(***************************************************************************)
\* the operator text of Lt.toSQL(opposite, orEq)
LtOpr(opposite, orEq) ==
    (IF opposite THEN <<">">> ELSE <<"<">>) \o (IF orEq THEN <<"=">> ELSE <<>>)

\* the loop of Lt.toSQL (errNull, errList its two errors) and of Like.toSQL
RECURSIVE CmpLoop(_, _, _, _, _, _, _, _)
CmpLoop(m, keys, i, opr, errNull, errList, exprs, args) ==
    IF i > Len(keys)
    THEN Result(Join(exprs, <<" ", "A", "N", "D", " ">>), args, Len(args) = 0, NoErr)
    ELSE
        LET key == keys[i]
            v0 == m[key]
        IN  IF v0.t = "valuer" /\ v0.verr # NoErr
            THEN Result(<<>>, args, Len(args) = 0, v0.verr)
            ELSE
                LET val == IF v0.t = "valuer" THEN v0.val ELSE v0
                IN  IF val.t = "nil" THEN Result(<<>>, args, Len(args) = 0, errNull)
                    ELSE IF isListType(val) THEN Result(<<>>, args, Len(args) = 0, errList)
                    ELSE CmpLoop(m, keys, i + 1, opr, errNull, errList,
                                 Append(exprs, key \o <<" ">> \o opr \o <<" ", "?">>),
                                 Append(args, val))

LtToSQL(e, opposite, orEq) ==
    CmpLoop(e.m, getSortedKeys(e.iter), 1, LtOpr(opposite, orEq), ErrLtNull, ErrLtList, <<>>, <<>>)

\* Like.toSQL ranges over the map itself: the keys come in range order
LikeToSQL(e, opr) ==
    CmpLoop(e.m, e.iter, 1, opr, ErrLikeNull, ErrLikeList, <<>>, <<>>)

LikeOpr(t) ==
    CASE t = "Like" -> <<"L", "I", "K", "E">>
      [] t = "NotLike" -> <<"N", "O", "T", " ", "L", "I", "K", "E">>
      [] t = "ILike" -> <<"I", "L", "I", "K", "E">>
      [] t = "NotILike" -> <<"N", "O", "T", " ", "I", "L", "I", "K", "E">>

(***************************************************************************)
(* expr.ToSQL, conj.join and the dispatch of SQLizer.ToSQL                  *)
(***************************************************************************)
RECURSIVE ToSQL(_)

RECURSIVE WherePartToSQL(_)

RECURSIVE PartToSQL(_)

RECURSIVE nestedToSQL(_)

\* the first loop of expr.ToSQL: simple is true when no argument is a SQLizer
ExprIsSimple(args) == \A i \in 1..Len(args) : ~IsSQLizer(args[i])

\* an escaped "??": it is appended to the buffer and stepped past
ExprEscapedCollapse(buf, sp, i) ==
    [buf |-> buf \o SliceTo(sp, i + 1), sp |-> SliceFrom(sp, i + 2)]

ExprEscaped(buf, sp, i) ==
    [buf |-> buf \o SliceTo(sp, i + 2), sp |-> SliceFrom(sp, i + 2)]

\* a sqlizer argument, rendered to r: the text before the marker and r's text
\* are appended to the buffer, r's arguments to the arguments
ExprExpandArgsFirst(buf, sp, i, args, argsNil, r) ==
    [buf |-> buf \o SliceTo(sp, i) \o r.sql, args |-> r.args \o args,
     argsNil |-> AppendNil(argsNil, r.args), err |-> r.err]

ExprExpandKeepMarker(buf, sp, i, args, argsNil, r) ==
    [buf |-> buf \o SliceTo(sp, i + 1) \o r.sql, args |-> args \o r.args,
     argsNil |-> AppendNil(argsNil, r.args), err |-> r.err]

ExprExpand(buf, sp, i, args, argsNil, r) ==
    [buf |-> buf \o SliceTo(sp, i) \o r.sql, args |-> args \o r.args,
     argsNil |-> AppendNil(argsNil, r.args), err |-> r.err]

\* a normal argument: it is appended, and the text up to and with the marker
ExprNormal(buf, sp, i, args, arg) ==
    [buf |-> buf \o SliceTo(sp, i + 1), args |-> Append(args, arg)]

\* the scanning loop of expr.ToSQL and the statements after it; buf is the
\* output buffer, ap the pending arguments, sp the text still to scan
RECURSIVE ExprLoop(_, _, _, _, _, _)

\* the arguments left when the markers run out are not appended
ExprLoopDropRest(buf, ap, sp, args, argsNil, err) ==
    LET i == Index(sp)
        finish == Result(buf \o sp, args, argsNil, err)
    IN  IF ~(err = NoErr /\ Len(ap) > 0 /\ Len(sp) > 0) THEN finish
        ELSE IF i < 0 THEN finish
        ELSE IF Len(sp) > i + 1 /\ sp[i + 2] = "?"
        THEN The({ExprLoop(st.buf, ap, st.sp, args, argsNil, err)
                  : st \in {ExprEscaped(buf, sp, i)}})
        ELSE IF IsSQLizer(ap[1])
        THEN The({ExprLoop(st.buf, Tail(ap), SliceFrom(sp, i + 1), st.args, st.argsNil, st.err)
                  : st \in {ExprExpand(buf, sp, i, args, argsNil, ToSQL(ap[1]))}})
        ELSE The({ExprLoop(st.buf, Tail(ap), SliceFrom(sp, i + 1), st.args, FALSE, err)
                  : st \in {ExprNormal(buf, sp, i, args, ap[1])}})

ExprLoop(buf, ap, sp, args, argsNil, err) ==
    LET i == Index(sp)
        finish == Result(buf \o sp, args \o ap, AppendNil(argsNil, ap), err)
    IN  IF ~(err = NoErr /\ Len(ap) > 0 /\ Len(sp) > 0) THEN finish
        ELSE IF i < 0 THEN finish
        ELSE IF Len(sp) > i + 1 /\ sp[i + 2] = "?"
        THEN The({ExprLoop(st.buf, ap, st.sp, args, argsNil, err)
                  : st \in {ExprEscaped(buf, sp, i)}})
        ELSE IF IsSQLizer(ap[1])
        THEN The({ExprLoop(st.buf, Tail(ap), SliceFrom(sp, i + 1), st.args, st.argsNil, st.err)
                  : st \in {ExprExpand(buf, sp, i, args, argsNil, ToSQL(ap[1]))}})
        ELSE The({ExprLoop(st.buf, Tail(ap), SliceFrom(sp, i + 1), st.args, FALSE, err)
                  : st \in {ExprNormal(buf, sp, i, args, ap[1])}})

\* the fast path returning the named result args instead of e.args
ExprToSQLDropArgs(e) ==
    IF ExprIsSimple(e.args)
    THEN Result(e.sql, <<>>, TRUE, NoErr)
    ELSE ExprLoop(<<>>, e.args, e.sql, <<>>, TRUE, NoErr)

ExprToSQL(e) ==
    IF ExprIsSimple(e.args)
    THEN Result(e.sql, e.args, Len(e.args) = 0, NoErr)
    ELSE ExprLoop(<<>>, e.args, e.sql, <<>>, TRUE, NoErr)

\* the loop of conj.join over the children, from child i on
RECURSIVE JoinLoop(_, _, _, _, _)

\* the arguments of a child kept although its empty text is skipped
JoinLoopKeepArgs(c, i, sep, sqlParts, args) ==
    IF i > Len(c)
    THEN Result(IF Len(sqlParts) > 0 THEN <<"(">> \o Join(sqlParts, sep) \o <<")">> ELSE <<>>,
                args, Len(args) = 0, NoErr)
    ELSE The({IF part.err # NoErr THEN Result(<<>>, <<>>, TRUE, part.err)
              ELSE IF part.sql # <<>>
              THEN JoinLoop(c, i + 1, sep, Append(sqlParts, part.sql), args \o part.args)
              ELSE JoinLoop(c, i + 1, sep, sqlParts, args \o part.args)
              : part \in {nestedToSQL(c[i])}})

JoinLoop(c, i, sep, sqlParts, args) ==
    IF i > Len(c)
    THEN Result(IF Len(sqlParts) > 0 THEN <<"(">> \o Join(sqlParts, sep) \o <<")">> ELSE <<>>,
                args, Len(args) = 0, NoErr)
    ELSE The({IF part.err # NoErr THEN Result(<<>>, <<>>, TRUE, part.err)
              ELSE IF part.sql # <<>>
              THEN JoinLoop(c, i + 1, sep, Append(sqlParts, part.sql), args \o part.args)
              ELSE JoinLoop(c, i + 1, sep, sqlParts, args)
              : part \in {nestedToSQL(c[i])}})

\* the true literal for every empty conjunction
ConjJoinAlwaysTrue(c, sep, defaultExpr) ==
    IF Len(c) = 0 THEN Result(sqlTrue, <<>>, FALSE, NoErr)
    ELSE JoinLoop(c, 1, sep, <<>>, <<>>)

ConjJoin(c, sep, defaultExpr) ==
    IF Len(c) = 0 THEN Result(defaultExpr, <<>>, FALSE, NoErr)
    ELSE JoinLoop(c, 1, sep, <<>>, <<>>)

\* s.ToSQL() by the dynamic type of s
ToSQL(s) ==
    CASE s.t = "expr" -> ExprToSQL(s)
      [] s.t = "Eq" -> EqToSQL(s, FALSE)
      [] s.t = "NotEq" -> EqToSQL(s, TRUE)
      [] s.t = "Lt" -> LtToSQL(s, FALSE, FALSE)
      [] s.t = "LtOrEq" -> LtToSQL(s, FALSE, TRUE)
      [] s.t = "Gt" -> LtToSQL(s, TRUE, FALSE)
      [] s.t = "GtOrEq" -> LtToSQL(s, TRUE, TRUE)
      [] s.t \in LikeKinds -> LikeToSQL(s, LikeOpr(s.t))
      [] s.t = "And" -> ConjJoin(s.parts, <<" ", "A", "N", "D", " ">>, sqlTrue)
      [] s.t = "Or" -> ConjJoin(s.parts, <<" ", "O", "R", " ">>, sqlFalse)
      [] s.t = "wherePart" -> WherePartToSQL(s)
      [] s.t = "part" -> PartToSQL(s)

(***************************************************************************)
(* Statement parts: part, wherePart, nestedToSQL, appendToSQL               *)
(***************************************************************************)
\* a string predicate of Where / When, and the nil predicate
StrPred(s) == [t |-> "string", s |-> s]

\* a predicate of a type the parts do not accept (the default branch)
BadPred == [t |-> "int"]

\* newPart(pred, args...)
newPart(pred, args) == [t |-> "part", pred |-> pred, args |-> args]

\* part.ToSQL
PartToSQL(p) ==
    CASE p.pred.t = "nil" -> Result(<<>>, <<>>, TRUE, NoErr)
      [] IsSQLizer(p.pred) -> nestedToSQL(p.pred)
      [] p.pred.t = "string" -> Result(p.pred.s, p.args, Len(p.args) = 0, NoErr)
      [] OTHER -> Result(<<>>, <<>>, TRUE, "expected string or SQLizer")

\* newWherePart(pred, args...)
newWherePart(pred, args) == [t |-> "wherePart", pred |-> pred, args |-> args]

\* wherePart.ToSQL
WherePartToSQL(p) ==
    CASE p.pred.t = "nil" -> Result(<<>>, <<>>, TRUE, NoErr)
      [] IsSQLizer(p.pred) -> ToSQL(p.pred)
      [] p.pred.t = "map" -> EqToSQL(p.pred, FALSE)
      [] p.pred.t = "string" -> Result(p.pred.s, p.args, Len(p.args) = 0, NoErr)
      [] OTHER -> Result(<<>>, <<>>, TRUE, "expected string-keyed map or string")

\* nestedToSQL(s): toSQLRaw for a rawSQLizer, else ToSQL
nestedToSQL(s) ==
    IF s.t = "wherePart" THEN WherePartToSQL(s) ELSE ToSQL(s)

\* the loop of appendToSQL from part i on; w is the text written so far
RECURSIVE appendLoop(_, _, _, _, _, _)
appendLoop(parts, i, w, sep, args, argsNil) ==
    IF i > Len(parts) THEN [w |-> w, args |-> args, argsNil |-> argsNil, err |-> NoErr]
    ELSE The({IF r.err # NoErr THEN [w |-> w, args |-> <<>>, argsNil |-> TRUE, err |-> r.err]
              ELSE IF Len(r.sql) = 0 THEN appendLoop(parts, i + 1, w, sep, args, argsNil)
              ELSE appendLoop(parts, i + 1, w \o (IF i > 1 THEN sep ELSE <<>>) \o r.sql, sep,
                              args \o r.args, AppendNil(argsNil, r.args))
              : r \in {nestedToSQL(parts[i])}})

appendToSQL(parts, w, sep, args, argsNil) == appendLoop(parts, 1, w, sep, args, argsNil)

(***************************************************************************)
(* The placeholder rewriter                                                 *)
(***************************************************************************)
Digits == <<"0", "1", "2", "3", "4", "5", "6", "7", "8", "9">>

\* fmt's %d of a natural number
RECURSIVE Itoa(_)
Itoa(n) ==
    IF n < 10 THEN <<Digits[n + 1]>>
    ELSE Itoa(n \div 10) \o <<Digits[(n % 10) + 1]>>

\* what a placeholder style emits for the marker with counter value i
StyleText(f, i) ==
    CASE f = "Question" -> <<"?">>
      [] f = "Dollar" -> <<"$">> \o Itoa(i)
      [] f = "Colon" -> <<":">> \o Itoa(i)
      [] f = "AtP" -> <<"@", "p">> \o Itoa(i)

\* the left-to-right scan with its 1-based running counter
RECURSIVE ReplaceLoop(_, _, _, _)
ReplaceLoop(f, sql, i, buf) ==
    LET p == Index(sql)
    IN  IF p < 0 THEN buf \o sql
        ELSE IF Len(sql) > p + 1 /\ sql[p + 2] = "?"
        THEN ReplaceLoop(f, SliceFrom(sql, p + 2), i, buf \o SliceTo(sql, p) \o <<"?">>)
        ELSE ReplaceLoop(f, SliceFrom(sql, p + 1), i + 1, buf \o SliceTo(sql, p) \o StyleText(f, i))

\* PlaceholderFormat.ReplacePlaceholders(sql)
ReplacePlaceholders(f, sql) == ReplaceLoop(f, sql, 1, <<>>)

(***************************************************************************)
(* DebugSQLizer                                                             *)
(***************************************************************************)
\* fmt's %v of an argument: a number in decimal, nil as <nil>, a slice as its
\* elements in brackets, an expr struct as its fields in braces; the map and
\* pointer values, which print their entries or an address, are kept as one
\* opaque piece
RECURSIVE Sprint(_)
Sprint(v) ==
    CASE v.t = "scalar" -> Itoa(v.v)
      [] v.t \in {"nil", "nilptr"} -> <<"<", "n", "i", "l", ">">>
      [] v.t \in {"list", "bytes"} ->
            <<"[">> \o Join([k \in 1..Len(v.elems) |-> Sprint(v.elems[k])], <<" ">>) \o <<"]">>
      [] v.t = "expr" ->
            <<"{">> \o v.sql \o <<" ", "[">>
            \o Join([k \in 1..Len(v.args) |-> Sprint(v.args[k])], <<" ">>) \o <<"]", "}">>
      [] OTHER -> <<"%v of a map or pointer">>

\* fmt's %#v of a text: the text in double quotes
GoQuote(sql) == <<"\"">> \o sql \o <<"\"">>

\* the two diagnostics of DebugSQLizer, over the text not yet scanned
TooManyPlaceholders(sql, n) ==
    <<"[DebugSQLizer error: too many placeholders in ">> \o GoQuote(sql)
    \o <<" for ">> \o Itoa(n) \o <<" args]">>

NotEnoughPlaceholders(sql, n) ==
    <<"[DebugSQLizer error: not enough placeholders in ">> \o GoQuote(sql)
    \o <<" for ">> \o Itoa(n) \o <<" args]">>

\* the scanning loop of DebugSQLizer and the statements after it: sql is the
\* text still to scan, i the number of arguments placed, buf the output
RECURSIVE DebugLoop(_, _, _, _)

\* arguments left over after the last placeholder are not reported
DebugLoopIgnoreExtraArgs(sql, args, i, buf) ==
    LET p == Index(sql)
    IN  IF p < 0 THEN buf \o sql
        ELSE IF Len(sql) - p > 1 /\ sql[p + 2] = "?"
        THEN DebugLoop(SliceFrom(sql, p + 2), args, i, buf \o SliceTo(sql, p) \o <<"?">>)
        ELSE IF i + 1 > Len(args) THEN TooManyPlaceholders(sql, Len(args))
        ELSE DebugLoop(SliceFrom(sql, p + 1), args, i + 1,
                       buf \o SliceTo(sql, p) \o <<"'">> \o Sprint(args[i + 1]) \o <<"'">>)

DebugLoop(sql, args, i, buf) ==
    LET p == Index(sql)
    IN  IF p < 0
        THEN IF i < Len(args) THEN NotEnoughPlaceholders(sql, Len(args)) ELSE buf \o sql
        ELSE IF Len(sql) - p > 1 /\ sql[p + 2] = "?"
        THEN DebugLoop(SliceFrom(sql, p + 2), args, i, buf \o SliceTo(sql, p) \o <<"?">>)
        ELSE IF i + 1 > Len(args) THEN TooManyPlaceholders(sql, Len(args))
        ELSE DebugLoop(SliceFrom(sql, p + 1), args, i + 1,
                       buf \o SliceTo(sql, p) \o <<"'">> \o Sprint(args[i + 1]) \o <<"'">>)

\* DebugSQLizer(s) for a fragment, whose placeholder is "?"
DebugSQLizer(s) ==
    The({IF r.err # NoErr THEN <<"[ToSQL error: ", r.err, "]">>
         ELSE DebugLoop(r.sql, r.args, 0, <<>>)
         : r \in {ToSQL(s)}})

(***************************************************************************)
(* updateData.ToSQL                                                         *)
(***************************************************************************)
\* setClause{column, value}
setClause(column, value) == [column |-> column, value |-> value]

\* the loop over d.SetClauses, from clause i on
RECURSIVE SetLoop(_, _, _, _, _)
SetLoop(clauses, i, setSQLs, args, argsNil) ==
    IF i > Len(clauses) THEN [sqls |-> setSQLs, args |-> args, argsNil |-> argsNil, err |-> NoErr]
    ELSE LET c == clauses[i]
         IN  IF IsSQLizer(c.value)
             THEN The({IF v.err # NoErr
                       THEN [sqls |-> <<>>, args |-> <<>>, argsNil |-> TRUE, err |-> v.err]
                       ELSE SetLoop(clauses, i + 1, Append(setSQLs, c.column \o <<" ", "=", " ">> \o v.sql),
                                    args \o v.args, AppendNil(argsNil, v.args))
                       : v \in {ToSQL(c.value)}})
             ELSE SetLoop(clauses, i + 1, Append(setSQLs, c.column \o <<" ", "=", " ">> \o <<"?">>),
                          Append(args, c.value), FALSE)

\* a writer and argument list nothing was appended to
Untouched(w, args, argsNil) == [w |-> w, args |-> args, argsNil |-> argsNil, err |-> NoErr]

\* sql.WriteString(" ") after the prefixes were appended without error
AfterPrefixes(pre) == IF pre.err # NoErr THEN pre ELSE [pre EXCEPT !.w = @ \o <<" ">>]

\* OFFSET written before LIMIT
TailClausesOffsetFirst(dd) ==
    (IF Len(dd.OrderBys) > 0 THEN <<" ", "O", "R", "D", "E", "R", " ", "B", "Y", " ">> \o Join(dd.OrderBys, <<",", " ">>) ELSE <<>>)
    \o (IF Len(dd.Offset) > 0 THEN <<" ", "O", "F", "F", "S", "E", "T", " ">> \o dd.Offset ELSE <<>>)
    \o (IF Len(dd.Limit) > 0 THEN <<" ", "L", "I", "M", "I", "T", " ">> \o dd.Limit ELSE <<>>)

\* the clauses ORDER BY, LIMIT and OFFSET of a statement
TailClauses(dd) ==
    (IF Len(dd.OrderBys) > 0 THEN <<" ", "O", "R", "D", "E", "R", " ", "B", "Y", " ">> \o Join(dd.OrderBys, <<",", " ">>) ELSE <<>>)
    \o (IF Len(dd.Limit) > 0 THEN <<" ", "L", "I", "M", "I", "T", " ">> \o dd.Limit ELSE <<>>)
    \o (IF Len(dd.Offset) > 0 THEN <<" ", "O", "F", "F", "S", "E", "T", " ">> \o dd.Offset ELSE <<>>)

\* updateData.ToSQL up to the placeholder rewrite: the composed statement
UpdateCompose(dd) ==
    IF Len(dd.Table) = 0 THEN Result(<<>>, <<>>, TRUE, ErrNoTable)
    ELSE IF Len(dd.SetClauses) = 0 THEN Result(<<>>, <<>>, TRUE, ErrNoSet)
    ELSE The({
      IF pre.err # NoErr THEN Result(<<>>, <<>>, TRUE, pre.err)
      ELSE The({
        IF sets.err # NoErr THEN Result(<<>>, <<>>, TRUE, sets.err)
        ELSE The({
          IF wh.err # NoErr THEN Result(<<>>, <<>>, TRUE, wh.err)
          ELSE The({
            IF suf.err # NoErr THEN Result(<<>>, <<>>, TRUE, suf.err)
            ELSE Result(suf.w, suf.args, suf.argsNil, NoErr)
            : suf \in {IF Len(dd.Suffixes) > 0
                       THEN appendToSQL(dd.Suffixes, wh.w \o TailClauses(dd) \o <<" ">>, <<" ">>,
                                        wh.args, wh.argsNil)
                       ELSE Untouched(wh.w \o TailClauses(dd), wh.args, wh.argsNil)}})
          : wh \in {IF Len(dd.WhereParts) > 0
                    THEN appendToSQL(dd.WhereParts,
                                     pre.w \o <<"U", "P", "D", "A", "T", "E", " ">> \o dd.Table \o <<" ", "S", "E", "T", " ">>
                                           \o Join(sets.sqls, <<",", " ">>) \o <<" ", "W", "H", "E", "R", "E", " ">>,
                                     <<" ", "A", "N", "D", " ">>, sets.args, sets.argsNil)
                    ELSE Untouched(pre.w \o <<"U", "P", "D", "A", "T", "E", " ">> \o dd.Table \o <<" ", "S", "E", "T", " ">>
                                         \o Join(sets.sqls, <<",", " ">>),
                                   sets.args, sets.argsNil)}})
        : sets \in {SetLoop(dd.SetClauses, 1, <<>>, pre.args, pre.argsNil)}})
      : pre \in {IF Len(dd.Prefixes) > 0
                 THEN AfterPrefixes(appendToSQL(dd.Prefixes, <<>>, <<" ">>, <<>>, TRUE))
                 ELSE Untouched(<<>>, <<>>, TRUE)}})

\* the composed text returned without the placeholder rewrite
UpdateToSQLNoRewrite(dd) == UpdateCompose(dd)

UpdateToSQL(dd) ==
    The({IF c.err # NoErr THEN c
         ELSE Result(ReplacePlaceholders(dd.PlaceholderFormat, c.sql), c.args, c.argsNil, NoErr)
         : c \in {UpdateCompose(dd)}})

(***************************************************************************)
(* deleteData.ToSQL                                                         *)
(***************************************************************************)
ErrNoFrom == "delete statements must specify a From table"

\* the composed DELETE statement before the placeholder rewrite
DeleteCompose(dd) ==
    IF Len(dd.Table) = 0 THEN Result(<<>>, <<>>, TRUE, ErrNoFrom)
    ELSE The({
      IF pre.err # NoErr THEN Result(<<>>, <<>>, TRUE, pre.err)
      ELSE The({
        IF wh.err # NoErr THEN Result(<<>>, <<>>, TRUE, wh.err)
        ELSE The({
          IF suf.err # NoErr THEN Result(<<>>, <<>>, TRUE, suf.err)
          ELSE Result(suf.w, suf.args, suf.argsNil, NoErr)
          : suf \in {IF Len(dd.Suffixes) > 0
                     THEN appendToSQL(dd.Suffixes, wh.w \o TailClauses(dd) \o <<" ">>, <<" ">>,
                                      wh.args, wh.argsNil)
                     ELSE Untouched(wh.w \o TailClauses(dd), wh.args, wh.argsNil)}})
        : wh \in {IF Len(dd.WhereParts) > 0
                  THEN appendToSQL(dd.WhereParts, pre.w \o <<"D", "E", "L", "E", "T", "E", " ", "F", "R", "O", "M", " ">> \o dd.Table \o <<" ", "W", "H", "E", "R", "E", " ">>,
                                   <<" ", "A", "N", "D", " ">>, pre.args, pre.argsNil)
                  ELSE Untouched(pre.w \o <<"D", "E", "L", "E", "T", "E", " ", "F", "R", "O", "M", " ">> \o dd.Table, pre.args, pre.argsNil)}})
      : pre \in {IF Len(dd.Prefixes) > 0
                 THEN AfterPrefixes(appendToSQL(dd.Prefixes, <<>>, <<" ">>, <<>>, TRUE))
                 ELSE Untouched(<<>>, <<>>, TRUE)}})

DeleteToSQL(dd) ==
    The({IF c.err # NoErr THEN c
         ELSE Result(ReplacePlaceholders(dd.PlaceholderFormat, c.sql), c.args, c.argsNil, NoErr)
         : c \in {DeleteCompose(dd)}})

(***************************************************************************)
(* sqlizerBuffer and caseData.ToSQL                                         *)
(***************************************************************************)
ErrNoWhen == "case expression must contain at lease one WHEN clause"

\* sqlizerBuffer{}: the embedded bytes.Buffer, args and err
EmptyBuffer == [buf |-> <<>>, args |-> <<>>, argsNil |-> TRUE, err |-> NoErr]

\* the promoted bytes.Buffer.WriteString
WriteString(b, str) == [b EXCEPT !.buf = @ \o str]

\* a WriteSQL that renders and writes whatever the stored error is
WriteSQLNoShortCircuit(b, item) ==
    The({IF r.err # NoErr THEN [b EXCEPT !.err = r.err]
         ELSE [b EXCEPT !.buf = @ \o r.sql \o <<" ">>, !.args = @ \o r.args,
                        !.argsNil = AppendNil(@, r.args)]
         : r \in {nestedToSQL(item)}})

\* sqlizerBuffer.WriteSQL
WriteSQL(b, item) ==
    IF b.err # NoErr THEN b
    ELSE The({IF r.err # NoErr THEN [b EXCEPT !.err = r.err]
              ELSE [b EXCEPT !.buf = @ \o r.sql \o <<" ">>, !.args = @ \o r.args,
                             !.argsNil = AppendNil(@, r.args)]
              : r \in {nestedToSQL(item)}})

\* sqlizerBuffer.ToSQL
BufferToSQL(b) == Result(b.buf, b.args, b.argsNil, b.err)

\* whenPart{when, then}
newWhenPart(when, then) == [when |-> newPart(when, <<>>), then |-> newPart(then, <<>>)]

\* the loop of caseData.ToSQL over d.WhenParts, from part i on
RECURSIVE WhenLoop(_, _, _)
WhenLoop(parts, i, b) ==
    IF i > Len(parts) THEN b
    ELSE WhenLoop(parts, i + 1,
                  WriteSQL(WriteString(WriteSQL(WriteString(b, <<"W", "H", "E", "N", " ">>), parts[i].when),
                                       <<"T", "H", "E", "N", " ">>),
                           parts[i].then))

\* the render without the check for WHEN parts
CaseToSQLNoWhenCheck(dd) ==
    The({The({The({BufferToSQL(WriteString(e, <<"E", "N", "D">>))
                   : e \in {IF dd.Else.t # "none"
                            THEN WriteSQL(WriteString(w, <<"E", "L", "S", "E", " ">>), dd.Else)
                            ELSE w}})
              : w \in {WhenLoop(dd.WhenParts, 1, h)}})
         : h \in {IF dd.What.t # "none"
                  THEN WriteSQL(WriteString(EmptyBuffer, <<"C", "A", "S", "E", " ">>), dd.What)
                  ELSE WriteString(EmptyBuffer, <<"C", "A", "S", "E", " ">>)}})

\* caseData.ToSQL
CaseToSQL(dd) ==
    IF Len(dd.WhenParts) = 0 THEN Result(<<>>, <<>>, TRUE, ErrNoWhen)
    ELSE The({The({The({BufferToSQL(WriteString(e, <<"E", "N", "D">>))
                        : e \in {IF dd.Else.t # "none"
                                 THEN WriteSQL(WriteString(w, <<"E", "L", "S", "E", " ">>), dd.Else)
                                 ELSE w}})
                   : w \in {WhenLoop(dd.WhenParts, 1, h)}})
              : h \in {IF dd.What.t # "none"
                       THEN WriteSQL(WriteString(EmptyBuffer, <<"C", "A", "S", "E", " ">>), dd.What)
                       ELSE WriteString(EmptyBuffer, <<"C", "A", "S", "E", " ">>)}})

\* MustSQL over the results of ToSQL: panic(err), or the text and arguments
MustSQL(r) ==
    IF r.err # NoErr THEN [panicked |-> TRUE, err |-> r.err]
    ELSE [panicked |-> FALSE, sql |-> r.sql, args |-> r.args, argsNil |-> r.argsNil]

(***************************************************************************)
(* The UpdateBuilder / DeleteBuilder methods, on the statement data         *)
(***************************************************************************)
\* the data of a fresh builder: StatementBuilder's format is Question
EmptyData(stmt) ==
    [stmt |-> stmt, PlaceholderFormat |-> "Question", Prefixes |-> <<>>, Table |-> <<>>,
     SetClauses |-> <<>>, WhereParts |-> <<>>, OrderBys |-> <<>>, Limit |-> <<>>,
     Offset |-> <<>>, Suffixes |-> <<>>]

\* the data of a run that renders a fragment and builds no statement
NoData == [stmt |-> "none"]

NoFrag == [t |-> "none"]

NoResult == [err |-> "not rendered"]

BuilderPlaceholderFormat(dd, f) == [dd EXCEPT !.PlaceholderFormat = f]

BuilderPrefix(dd, sql, args) == [dd EXCEPT !.Prefixes = Append(@, Expr(sql, args))]

BuilderTable(dd, table) == [dd EXCEPT !.Table = table]

BuilderSet(dd, column, value) == [dd EXCEPT !.SetClauses = Append(@, setClause(column, value))]

\* SetMap: one Set per key, the keys (collected in range order iter) sorted
RECURSIVE SetMapLoop(_, _, _, _)
SetMapLoop(dd, clauses, keys, i) ==
    IF i > Len(keys) THEN dd
    ELSE SetMapLoop(BuilderSet(dd, keys[i], clauses[keys[i]]), clauses, keys, i + 1)

BuilderSetMap(dd, clauses, iter) == SetMapLoop(dd, clauses, SortStrings(iter), 1)

BuilderWhere(dd, pred, args) == [dd EXCEPT !.WhereParts = Append(@, newWherePart(pred, args))]

BuilderOrderBy(dd, orderBys) == [dd EXCEPT !.OrderBys = @ \o orderBys]

BuilderLimit(dd, limit) == [dd EXCEPT !.Limit = Itoa(limit)]

BuilderOffset(dd, offset) == [dd EXCEPT !.Offset = Itoa(offset)]

BuilderSuffix(dd, sql, args) == [dd EXCEPT !.Suffixes = Append(@, Expr(sql, args))]

\* the data of a fresh CaseBuilder: no What, no WhenParts, no Else
EmptyCase == [stmt |-> "case", What |-> NoFrag, WhenParts |-> <<>>, Else |-> NoFrag]

\* CaseBuilder.what, When and Else
BuilderWhat(dd, expr) == [dd EXCEPT !.What = newPart(expr, <<>>)]

BuilderWhen(dd, when, then) == [dd EXCEPT !.WhenParts = Append(@, newWhenPart(when, then))]

BuilderElse(dd, expr) == [dd EXCEPT !.Else = newPart(expr, <<>>)]

(***************************************************************************)
(* The inputs of the model                                                  *)
(***************************************************************************)
\* the sequences over S of length at most n
SeqsUpTo(S, n) == UNION {[1..k -> S] : k \in 0..n}

\* the orders in which a range statement can visit the keys K
Perms(K) == {p \in [1..Cardinality(K) -> K] : \A i, j \in 1..Cardinality(K) : p[i] = p[j] => i = j}

Scalars == {Scalar(n) : n \in 1..MaxVal}

Lists == {List([i \in 1..n |-> Scalar(i)]) : n \in 0..MaxList}

\* map keys: "B" < "a" < "a?" in byte order
Keys == {<<"B">>, <<"a">>, <<"a", "?">>}

\* the values of the key an Eq / NotEq input is about
EqVals ==
    Scalars \cup Lists \cup {Ptr(l) : l \in Lists}
    \cup {Nil, NilPtr, Ptr(Scalar(1)), Bytes(<<>>), Bytes(<<Scalar(1)>>),
          Valuer(Nil, NoErr), Valuer(Scalar(1), NoErr), Valuer(Nil, ErrValuer),
          Expr(<<"x">>, <<>>)}

\* the values of the other keys of an Eq / NotEq input
EqFills == {Scalar(2), Nil, List(<<Scalar(1), Scalar(2)>>)}

\* the values of Lt-family and Like-family inputs
CmpVals ==
    Scalars \cup {Nil, NilPtr, List(<<Scalar(1)>>), Valuer(Nil, NoErr), Valuer(Nil, ErrValuer)}

CmpFills == {Scalar(2), Nil}

\* the maps with keys in Keys: one key holds a value of vals, the rest of fills
MapsOver(vals, fills) ==
    {<<>>} \cup
    UNION {UNION {{[k \in K |-> IF k = f THEN v ELSE g[k]] : v \in vals, g \in [K \ {f} -> fills]}
                  : f \in K}
           : K \in (SUBSET Keys) \ {{}}}

\* the map fragments of the given kinds, with every range order of each map
MapFrags(kinds, maps) ==
    UNION {{MapFrag(t, m, it) : t \in kinds, it \in Perms(DOMAIN m)} : m \in maps}

\* the texts of the Expr inputs
Texts == {<<>>, <<"x">>, <<"f", "(", "?", ")">>, <<"?", " ", "@", " ", "?">>, <<"c", "(", "?", "?", ")">>, <<"?", "?", "=", "?">>, <<"?">>}

\* fragments used as arguments and as children
FragX == Expr(<<"x">>, <<>>)

FragNullif == Expr(<<"n", "(", "a", ",", "?", ")">>, <<Scalar(1)>>)

FragTwo == Expr(<<"?", " ", "@", "@", " ", "?">>, <<Scalar(1), Scalar(2)>>)

FragEq == MapFrag("Eq", (<<"a">> :> Scalar(1)), <<<<"a">>>>)

\* fails at key "a" after the argument of key "B" was bound
FragLtNull == MapFrag("Lt", (<<"B">> :> Scalar(1)) @@ (<<"a">> :> Nil), <<<<"a">>, <<"B">>>>)

FragAnd == Conj("And", <<FragEq, Expr(<<"N", "O", "T", " ", "c">>, <<>>), FragTwo>>)

FragDeep == Expr(<<"c", "(", "?", ")">>, <<FragNullif>>)

FragEsc == Expr(<<"?", "?", "x">>, <<>>)

FragEmpty == Expr(<<>>, <<>>)

\* an empty text that carries an argument
FragEmptyArg == Expr(<<>>, <<Scalar(1)>>)

FragLikeEmpty == MapFrag("Like", <<>>, <<>>)

FragOrEmpty == Conj("Or", <<>>)

NestedFrags == {FragX, FragNullif, FragTwo, FragEq, FragLtNull, FragAnd, FragDeep, FragEsc}

ExprInputs == {Expr(text, args) : text \in Texts, args \in SeqsUpTo(Scalars \cup NestedFrags, MaxArgs)}

ConjChildren ==
    {FragX, FragNullif, FragTwo, FragEq, FragLtNull, FragAnd, FragEmpty, FragEmptyArg, FragLikeEmpty, FragOrEmpty}

ConjInputs == {Conj(t, parts) : t \in ConjKinds, parts \in SeqsUpTo(ConjChildren, MaxParts)}

FragInputs ==
    ExprInputs \cup ConjInputs
    \cup MapFrags(EqKinds, MapsOver(EqVals, EqFills))
    \cup MapFrags(LtKinds \cup LikeKinds, MapsOver(CmpVals, CmpFills))

\* the Set clauses, Where parts, prefix and suffix the builder runs choose from
SetChoices ==
    {setClause(<<"x">>, Scalar(1)), setClause(<<"y">>, Expr(<<"?", " ", "+", " ", "1">>, <<Scalar(2)>>)),
     setClause(<<"z">>, FragLtNull)}

SetMapClauses == (<<"b">> :> Scalar(3)) @@ (<<"a">> :> Scalar(4))

WhereChoices ==
    {newWherePart(StrPred(<<"u", " ", "=", " ", "?">>), <<Scalar(5)>>),
     newWherePart(StrPred(<<>>), <<Scalar(7)>>),
     newWherePart(StrPred(<<"v", " ", "=", " ", "?">>), <<Scalar(5), Scalar(6)>>),
     newWherePart(MapFrag("Eq", (<<"a">> :> List(<<Scalar(6), Scalar(7)>>)), <<<<"a">>>>), <<>>)}

\* the calls of appendToSQL on an empty writer: the parts and the separator
PartChoices == WhereChoices \cup {newWherePart(BadPred, <<>>)}

AppendInputs ==
    {[t |-> "parts", parts |-> ps, sep |-> sep]
       : ps \in SeqsUpTo(PartChoices, MaxAppend), sep \in {<<" ", "A", "N", "D", " ">>, <<" ">>}}

\* the values the CaseBuilder runs choose from: what, when, then and else
WhatChoices == {StrPred(<<"w">>), FragLtNull}

WhenChoices == {StrPred(<<"p">>), FragLtNull}

ThenChoices == {FragNullif, BadPred}

ElseChoices == {StrPred(<<"o">>), FragLtNull}

\* the calls a run makes on one sqlizerBuffer: WriteString of a keyword, and
\* WriteSQL of a part, as caseData.ToSQL makes them; two of the parts fail to
\* render, each with an error of its own
BufferStrings == {<<"W", "H", "E", "N", " ">>, <<"E", "N", "D">>}

BufferItems ==
    {newPart(StrPred(<<"p">>), <<>>), newPart(FragNullif, <<>>), newPart(BadPred, <<>>),
     newPart(FragLtNull, <<>>)}

\* no call made yet
NoCalls == [t |-> "calls", calls |-> <<>>]

(***************************************************************************)
(* The state machine                                                        *)
(***************************************************************************)
Init ==
    /\ res = NoResult
    /\ \/ frag \in FragInputs /\ d = NoData /\ op = "none"
       \/ frag = NoFrag /\ d \in {EmptyData("update"), EmptyData("delete")} /\ op = "build"
       \/ frag = NoFrag /\ d = EmptyCase /\ op = "buildcase"
       \/ frag \in AppendInputs /\ d = NoData /\ op = "parts"
       \/ frag = NoCalls /\ d = EmptyBuffer /\ op = "buffer"

ExprRender ==
    /\ op = "none"
    /\ frag.t = "expr"
    /\ res' = ExprToSQL(frag)
    /\ op' = "expr"
    /\ UNCHANGED <<frag, d>>

EqRender ==
    /\ op = "none"
    /\ frag.t = "Eq"
    /\ res' = EqToSQL(frag, FALSE)
    /\ op' = "Eq"
    /\ UNCHANGED <<frag, d>>

NotEqRender ==
    /\ op = "none"
    /\ frag.t = "NotEq"
    /\ res' = EqToSQL(frag, TRUE)
    /\ op' = "NotEq"
    /\ UNCHANGED <<frag, d>>

\* Lt.ToSQL, LtOrEq.ToSQL, Gt.ToSQL, GtOrEq.ToSQL
LtRender ==
    /\ op = "none"
    /\ frag.t \in LtKinds
    /\ res' = LtToSQL(frag, frag.t \in {"Gt", "GtOrEq"}, frag.t \in {"LtOrEq", "GtOrEq"})
    /\ op' = frag.t
    /\ UNCHANGED <<frag, d>>

\* Like.ToSQL, NotLike.ToSQL, ILike.ToSQL, NotILike.ToSQL
LikeRender ==
    /\ op = "none"
    /\ frag.t \in LikeKinds
    /\ res' = LikeToSQL(frag, LikeOpr(frag.t))
    /\ op' = frag.t
    /\ UNCHANGED <<frag, d>>

AndRender ==
    /\ op = "none"
    /\ frag.t = "And"
    /\ res' = ConjJoin(frag.parts, <<" ", "A", "N", "D", " ">>, sqlTrue)
    /\ op' = "And"
    /\ UNCHANGED <<frag, d>>

OrRender ==
    /\ op = "none"
    /\ frag.t = "Or"
    /\ res' = ConjJoin(frag.parts, <<" ", "O", "R", " ">>, sqlFalse)
    /\ op' = "Or"
    /\ UNCHANGED <<frag, d>>

DebugRender ==
    /\ op = "none"
    /\ res' = [debug |-> DebugSQLizer(frag)]
    /\ op' = "debug"
    /\ UNCHANGED <<frag, d>>

AppendRender ==
    /\ op = "parts"
    /\ res' = appendToSQL(frag.parts, <<>>, frag.sep, <<>>, TRUE)
    /\ op' = "append"
    /\ UNCHANGED <<frag, d>>

\* a builder method call: b = b.Method(...)
Build(dd) ==
    /\ d' = dd
    /\ UNCHANGED <<frag, op, res>>

PlaceholderFormat ==
    /\ op = "build"
    /\ d.PlaceholderFormat = "Question"
    /\ Build(BuilderPlaceholderFormat(d, "Dollar"))

Prefix ==
    /\ op = "build"
    /\ Len(d.Prefixes) = 0
    /\ \E p \in {<<<<"W", "I", "T", "H", " ", "p", " ", "A", "S", " ", "?">>, <<Scalar(8)>>>>, <<<<"/", "*", " ", "?", "?", " ", "*", "/">>, <<>>>>} :
          Build(BuilderPrefix(d, p[1], p[2]))

Table ==
    /\ op = "build"
    /\ Len(d.Table) = 0
    /\ Build(BuilderTable(d, <<"t">>))

Set ==
    /\ op = "build"
    /\ d.stmt = "update"
    /\ Len(d.SetClauses) < MaxSet
    /\ \E c \in SetChoices : Build(BuilderSet(d, c.column, c.value))

SetMap ==
    /\ op = "build"
    /\ d.stmt = "update"
    /\ Len(d.SetClauses) + Cardinality(DOMAIN SetMapClauses) <= MaxSet
    /\ \E it \in Perms(DOMAIN SetMapClauses) : Build(BuilderSetMap(d, SetMapClauses, it))

Where ==
    /\ op = "build"
    /\ Len(d.WhereParts) < MaxWhere
    /\ \E w \in WhereChoices : Build(BuilderWhere(d, w.pred, w.args))

OrderBy ==
    /\ op = "build"
    /\ Len(d.OrderBys) = 0
    /\ Build(BuilderOrderBy(d, <<<<"e">>>>))

Limit ==
    /\ op = "build"
    /\ Len(d.Limit) = 0
    /\ Build(BuilderLimit(d, 4))

Offset ==
    /\ op = "build"
    /\ Len(d.Offset) = 0
    /\ Build(BuilderOffset(d, 5))

Suffix ==
    /\ op = "build"
    /\ Len(d.Suffixes) = 0
    /\ Build(BuilderSuffix(d, <<"R", "E", "T", "U", "R", "N", "I", "N", "G", " ", "?">>, <<Scalar(9)>>))

UpdateRender ==
    /\ op = "build"
    /\ d.stmt = "update"
    /\ res' = UpdateToSQL(d)
    /\ op' = "update"
    /\ UNCHANGED <<frag, d>>

DeleteRender ==
    /\ op = "build"
    /\ d.stmt = "delete"
    /\ res' = DeleteToSQL(d)
    /\ op' = "delete"
    /\ UNCHANGED <<frag, d>>

UpdateMustSQL ==
    /\ op = "build"
    /\ d.stmt = "update"
    /\ res' = MustSQL(UpdateToSQL(d))
    /\ op' = "updateMust"
    /\ UNCHANGED <<frag, d>>

CaseWhat ==
    /\ op = "buildcase"
    /\ d.What.t = "none"
    /\ \E x \in WhatChoices : Build(BuilderWhat(d, x))

CaseWhen ==
    /\ op = "buildcase"
    /\ Len(d.WhenParts) < MaxWhen
    /\ \E w \in WhenChoices, t \in ThenChoices : Build(BuilderWhen(d, w, t))

CaseElse ==
    /\ op = "buildcase"
    /\ d.Else.t = "none"
    /\ \E x \in ElseChoices : Build(BuilderElse(d, x))

CaseRender ==
    /\ op = "buildcase"
    /\ res' = CaseToSQL(d)
    /\ op' = "case"
    /\ UNCHANGED <<frag, d>>

CaseMustSQL ==
    /\ op = "buildcase"
    /\ res' = MustSQL(CaseToSQL(d))
    /\ op' = "caseMust"
    /\ UNCHANGED <<frag, d>>

\* one call of WriteString on the buffer d; frag records the calls made
BufferWriteString ==
    /\ op = "buffer"
    /\ Len(frag.calls) < MaxCalls
    /\ \E str \in BufferStrings :
          /\ d' = WriteString(d, str)
          /\ frag' = [frag EXCEPT !.calls = Append(@, [call |-> "WriteString", str |-> str])]
    /\ UNCHANGED <<op, res>>

\* one call of WriteSQL on the buffer d
BufferWriteSQL ==
    /\ op = "buffer"
    /\ Len(frag.calls) < MaxCalls
    /\ \E item \in BufferItems :
          /\ d' = WriteSQL(d, item)
          /\ frag' = [frag EXCEPT !.calls = Append(@, [call |-> "WriteSQL", item |-> item])]
    /\ UNCHANGED <<op, res>>

\* sqlizerBuffer.ToSQL on the buffer d
BufferRender ==
    /\ op = "buffer"
    /\ res' = BufferToSQL(d)
    /\ op' = "bufferToSQL"
    /\ UNCHANGED <<frag, d>>

Next ==
    \/ ExprRender \/ EqRender \/ NotEqRender \/ LtRender \/ LikeRender \/ AndRender \/ OrRender
    \/ DebugRender \/ AppendRender
    \/ PlaceholderFormat \/ Prefix \/ Table \/ Set \/ SetMap \/ Where
    \/ OrderBy \/ Limit \/ Offset \/ Suffix
    \/ UpdateRender \/ DeleteRender \/ UpdateMustSQL
    \/ CaseWhat \/ CaseWhen \/ CaseElse \/ CaseRender \/ CaseMustSQL
    \/ BufferWriteString \/ BufferWriteSQL \/ BufferRender

Spec == Init /\ [][Next]_vars

(***************************************************************************)
(* Properties                                                               *)
(***************************************************************************)
\* the positions of the non-escaped markers of s, from position i on: a "?"
\* followed by a "?" is an escaped pair, read left to right
RECURSIVE MarkersFrom(_, _)
MarkersFrom(s, i) ==
    IF i > Len(s) THEN <<>>
    ELSE IF s[i] # "?" THEN MarkersFrom(s, i + 1)
    ELSE IF i < Len(s) /\ s[i + 1] = "?" THEN MarkersFrom(s, i + 2)
    ELSE <<i>> \o MarkersFrom(s, i + 1)

MarkerPos(s) == MarkersFrom(s, 1)

Markers(s) == Len(MarkerPos(s))

\* the concatenation of the sequences f[1], ..., f[n]
RECURSIVE Concat(_, _)
Concat(f, n) == IF n = 0 THEN <<>> ELSE Concat(f, n - 1) \o f[n]

\* the text of e with its k-th marker replaced by rep[k]
SpliceAtMarkers(text, rep) ==
    LET pos == MarkerPos(text)
        n == Len(pos)
        seg == [k \in 0..n |->
                   SubSeq(text, (IF k = 0 THEN 0 ELSE pos[k]) + 1,
                                (IF k = n THEN Len(text) + 1 ELSE pos[k + 1]) - 1)]
    IN  seg[0] \o Concat([k \in 1..n |-> rep[k] \o seg[k]], n)

\* the plain values below v, depth first and left to right, for a tree of Exprs
RECURSIVE Leaves(_)
Leaves(v) ==
    IF v.t = "expr" THEN Concat([k \in 1..Len(v.args) |-> Leaves(v.args[k])], Len(v.args))
    ELSE <<v>>

\* v is a plain value, or an Expr whose markers and arguments agree in number
\* and whose arguments are such values
RECURSIVE ExprTree(_)
ExprTree(v) ==
    \/ ~IsSQLizer(v)
    \/ /\ v.t = "expr"
       /\ Markers(v.sql) = Len(v.args)
       /\ \A k \in 1..Len(v.args) : ExprTree(v.args[k])

\* C1: an Expr with a fragment argument and as many markers as arguments,
\* rendered without error, returns its text with the k-th marker replaced by
\* the rendered text of the k-th argument (a fragment) or left as "?" (a plain
\* value), and the arguments of the fragments and the plain values in marker
\* order; over a tree of such Exprs the arguments are its plain values, depth
\* first and left to right
C1_ExprSplices ==
    (op = "expr" /\ ~ExprIsSimple(frag.args) /\ Markers(frag.sql) = Len(frag.args)
        /\ res.err = NoErr)
    => LET n == Len(frag.args)
           r == [k \in 1..n |-> IF IsSQLizer(frag.args[k]) THEN ToSQL(frag.args[k])
                                ELSE Result(<<"?">>, <<frag.args[k]>>, FALSE, NoErr)]
       IN  /\ res.sql = SpliceAtMarkers(frag.sql, [k \in 1..n |-> r[k].sql])
           /\ res.args = Concat([k \in 1..n |-> r[k].args], n)
           /\ ExprTree(frag) => res.args = Leaves(frag)

\* count(?) over nullif-in-count over a plain value, three levels deep
C1_Witness ==
    /\ op = "expr"
    /\ frag = Expr(<<"?", " ", "@", " ", "?">>, <<FragDeep, Scalar(2)>>)
    /\ res = Result(<<"c", "(", "n", "(", "a", ",", "?", ")", ")", " ", "@", " ", "?">>, <<Scalar(1), Scalar(2)>>, FALSE, NoErr)

\* every Expr below f has as many markers as arguments
RECURSIVE Balanced(_)
Balanced(f) ==
    CASE f.t = "expr" ->
            /\ Markers(f.sql) = Len(f.args)
            /\ \A k \in 1..Len(f.args) : IsSQLizer(f.args[k]) => Balanced(f.args[k])
      [] f.t \in ConjKinds -> \A k \in 1..Len(f.parts) : Balanced(f.parts[k])
      [] OTHER -> TRUE

\* no key of a map predicate below f contains the marker character
RECURSIVE KeysPlain(_)
KeysPlain(f) ==
    CASE f.t = "expr" -> \A k \in 1..Len(f.args) : IsSQLizer(f.args[k]) => KeysPlain(f.args[k])
      [] f.t \in ConjKinds -> \A k \in 1..Len(f.parts) : KeysPlain(f.parts[k])
      [] OTHER -> \A key \in DOMAIN f.m : \A j \in 1..Len(key) : key[j] # "?"

Rendered == op \in {"expr"} \cup EqKinds \cup LtKinds \cup LikeKinds \cup ConjKinds

\* C2 as stated: a fragment tree whose Exprs are balanced renders, when it
\* renders without error, to a text with as many markers as arguments
C2_AsStated ==
    (Rendered /\ Balanced(frag) /\ res.err = NoErr) => Markers(res.sql) = Len(res.args)

\* C2: ... provided no map key contains the marker character
C2_MarkersMatchArgs ==
    (Rendered /\ Balanced(frag) /\ KeysPlain(frag) /\ res.err = NoErr)
    => Markers(res.sql) = Len(res.args)

\* a conjunction of a map, a raw text and a two-marker Expr inside an Expr
C2_Witness ==
    /\ op = "expr"
    /\ frag = Expr(<<"f", "(", "?", ")">>, <<FragAnd>>)
    /\ res.err = NoErr
    /\ Markers(res.sql) = 3
    /\ Len(res.args) = 3

\* the text with every escaped pair "??" replaced by the two characters "##"
RECURSIVE Inert(_, _)
Inert(s, i) ==
    IF i > Len(s) THEN <<>>
    ELSE IF s[i] # "?" THEN <<s[i]>> \o Inert(s, i + 1)
    ELSE IF i < Len(s) /\ s[i + 1] = "?" THEN <<"#", "#">> \o Inert(s, i + 2)
    ELSE <<"?">> \o Inert(s, i + 1)

\* the text with every "#" replaced by "?"
Revert(s) == [i \in 1..Len(s) |-> IF s[i] = "#" THEN "?" ELSE s[i]]

\* C3: an escaped pair "??" of an Expr's text is copied as it is and takes and
\* adds no argument: the render is that of the same Expr with two inert
\* characters in place of each pair; Expr("c(??)", Expr("x")) returns "c(??)"
\* and its one argument, not rendered, as the argument list
C3_EscapedVerbatim ==
    op = "expr"
    => LET lit == ToSQL(Expr(Inert(frag.sql, 1), frag.args))
       IN  /\ res.sql = Revert(lit.sql)
           /\ res.args = lit.args
           /\ res.err = lit.err
           /\ (frag = Expr(<<"c", "(", "?", "?", ")">>, <<FragX>>)
                 => res = Result(<<"c", "(", "?", "?", ")">>, <<FragX>>, FALSE, NoErr))

C3_Witness ==
    /\ op = "expr"
    /\ frag = Expr(<<"?", "?", "=", "?">>, <<FragNullif>>)
    /\ res = Result(<<"?", "?", "=", "n", "(", "a", ",", "?", ")">>, <<Scalar(1)>>, FALSE, NoErr)

\* C4: an Expr none of whose arguments is a fragment renders to its own text
\* and its own argument list, without error, whatever its markers
C4_FastPathIdentity ==
    (op = "expr" /\ ExprIsSimple(frag.args))
    => res.sql = frag.sql /\ res.args = frag.args /\ res.err = NoErr

\* more arguments than markers, and an escaped pair in the text
C4_Witness ==
    /\ op = "expr"
    /\ frag = Expr(<<"?", "?", "=", "?">>, <<Scalar(1), Scalar(2)>>)
    /\ res = Result(<<"?", "?", "=", "?">>, <<Scalar(1), Scalar(2)>>, FALSE, NoErr)

\* the error of the first fragment argument, in marker order, that fails
RECURSIVE FirstError(_, _)
FirstError(args, k) ==
    IF k > Len(args) THEN NoErr
    ELSE IF IsSQLizer(args[k]) /\ ToSQL(args[k]).err # NoErr THEN ToSQL(args[k]).err
    ELSE FirstError(args, k + 1)

\* C5 as stated: when a fragment argument fails to render, expr.ToSQL returns
\* that error with an empty text and no arguments
C5_AsStated ==
    (op = "expr" /\ res.err # NoErr)
    => res.err = FirstError(frag.args, 1) /\ res.sql = <<>> /\ res.args = <<>>

\* the text with its k-th marker, counted from k on, replaced by "$k" and each
\* escaped pair by the single "?" the rewriter leaves for it
RECURSIVE Numbered(_, _, _)
Numbered(s, i, k) ==
    IF i > Len(s) THEN <<>>
    ELSE IF s[i] # "?" THEN <<s[i]>> \o Numbered(s, i + 1, k)
    ELSE IF i < Len(s) /\ s[i + 1] = "?" THEN <<"?">> \o Numbered(s, i + 2, k)
    ELSE <<"$">> \o Itoa(k) \o Numbered(s, i + 1, k + 1)

\* the arguments of a statement's clauses in clause order: prefixes, SET
\* values, WHERE parts, suffixes; a prefix, WHERE part or suffix whose text is
\* empty is not written and binds nothing
ClauseArgs(dd) ==
    LET of(ps) == Concat([k \in 1..Len(ps) |-> IF ToSQL(ps[k]).sql = <<>> THEN <<>>
                                                ELSE ToSQL(ps[k]).args], Len(ps))
        sets == IF dd.stmt = "update" THEN dd.SetClauses ELSE <<>>
    IN  of(dd.Prefixes)
        \o Concat([k \in 1..Len(sets) |-> IF IsSQLizer(sets[k].value) THEN ToSQL(sets[k].value).args
                                           ELSE <<sets[k].value>>], Len(sets))
        \o of(dd.WhereParts) \o of(dd.Suffixes)

Asc(K) == CHOOSE p \in Perms(K) : \A i \in 1..(Cardinality(K) - 1) : StrLess(p[i], p[i + 1])

\* the map fragment f cut down to its key k
OneKey(f, k) == MapFrag(f.t, (k :> f.m[k]), <<k>>)

\* the clauses of f, each rendered alone, in ascending key order
InKeyOrder(f) ==
    LET ks == Asc(DOMAIN f.m)
        one == [i \in 1..Len(ks) |-> ToSQL(OneKey(f, ks[i]))]
    IN  [sql |-> Join([i \in 1..Len(ks) |-> one[i].sql], <<" ", "A", "N", "D", " ">>),
         args |-> Concat([i \in 1..Len(ks) |-> one[i].args], Len(ks))]

\* C7: Eq, NotEq, Lt, LtOrEq, Gt and GtOrEq render the clauses of their keys
\* in ascending key order joined by " AND ", with the arguments in the same
\* order, whatever the order the map is ranged in
C7_SortedKeyOrder ==
    (op \in EqKinds \cup LtKinds /\ res.err = NoErr /\ DOMAIN frag.m # {})
    => res.sql = InKeyOrder(frag).sql /\ res.args = InKeyOrder(frag).args

\* a map ranged in descending key order
C7_Witness ==
    /\ op = "GtOrEq"
    /\ frag.iter = <<<<"a", "?">>, <<"a">>, <<"B">>>>
    /\ res = Result(<<"B", " ", ">", "=", " ", "?", " ", "A", "N", "D", " ", "a", " ", ">", "=", " ", "?", " ", "A", "N", "D", " ", "a", "?", " ", ">", "=", " ", "?">>, <<Scalar(2), Scalar(1), Scalar(2)>>, FALSE, NoErr)

\* C8 as stated: Like, NotLike, ILike and NotILike maps with two or more keys
\* render their clauses in ascending key order, the same on every render
C8_AsStated ==
    (op \in LikeKinds /\ res.err = NoErr /\ Cardinality(DOMAIN frag.m) >= 2)
    => res.sql = InKeyOrder(frag).sql /\ res.args = InKeyOrder(frag).args

\* n markers separated by commas
RECURSIVE Marks(_)
Marks(n) == IF n = 1 THEN <<"?">> ELSE Marks(n - 1) \o <<",", "?">>

\* the list behind a value, directly or through a non-nil pointer
ListOf(v) == IF v.t = "ptr" THEN v.elem ELSE v

IsList(v) == ListOf(v).t = "list"

\* the text and arguments of each key in ascending order: want[k] for the keys
\* in K, its render alone for the others
WithClauses(f, K, want) ==
    LET ks == Asc(DOMAIN f.m)
        one == [i \in 1..Len(ks) |-> IF ks[i] \in K THEN want[ks[i]] ELSE ToSQL(OneKey(f, ks[i]))]
    IN  [sql |-> Join([i \in 1..Len(ks) |-> one[i].sql], <<" ", "A", "N", "D", " ">>),
         args |-> Concat([i \in 1..Len(ks) |-> one[i].args], Len(ks))]

\* C9: in Eq / NotEq a key whose value is a list, directly or behind a non-nil
\* pointer, renders "(1=0)" / "(1=1)" and binds nothing when the list is
\* empty, and "key IN (?,...)" / "key NOT IN (?,...)" with one marker per
\* element, the elements bound in order, otherwise; a []byte is one value
C9_ListValues ==
    (op \in EqKinds /\ res.err = NoErr)
    => LET neg == op = "NotEq"
           K == {k \in DOMAIN frag.m : IsList(frag.m[k]) \/ frag.m[k].t = "bytes"}
           want == [k \in K |->
                      LET v == ListOf(frag.m[k])
                      IN  IF v.t = "bytes"
                          THEN [sql |-> k \o (IF neg THEN <<" ", "<", ">", " ", "?">> ELSE <<" ", "=", " ", "?">>), args |-> <<v>>]
                          ELSE IF Len(v.elems) = 0
                          THEN [sql |-> IF neg THEN <<"(", "1", "=", "1", ")">> ELSE <<"(", "1", "=", "0", ")">>, args |-> <<>>]
                          ELSE [sql |-> k \o (IF neg THEN <<" ", "N", "O", "T", " ", "I", "N", " ", "(">> ELSE <<" ", "I", "N", " ", "(">>)
                                          \o Marks(Len(v.elems)) \o <<")">>,
                                args |-> v.elems]]
       IN  K # {} => /\ res.sql = WithClauses(frag, K, want).sql
                     /\ res.args = WithClauses(frag, K, want).args

\* an empty list behind a pointer next to a two-element list, negated
C9_Witness ==
    /\ op = "NotEq"
    /\ frag.m = (<<"B">> :> List(<<Scalar(1), Scalar(2)>>)) @@ (<<"a">> :> Ptr(List(<<>>)))
    /\ res = Result(<<"B", " ", "N", "O", "T", " ", "I", "N", " ", "(", "?", ",", "?", ")", " ", "A", "N", "D", " ", "(", "1", "=", "1", ")">>, <<Scalar(1), Scalar(2)>>, FALSE, NoErr)

\* nil, a nil pointer, or a Valuer that yields nil
IsNull(v) == v.t \in {"nil", "nilptr"} \/ (v.t = "valuer" /\ v.verr = NoErr /\ v.val.t = "nil")

\* C10: in Eq / NotEq a key whose value is null (nil, a nil pointer, or a
\* Valuer yielding nil) renders "key IS NULL" / "key IS NOT NULL" and binds
\* no argument
C10_NullValues ==
    (op \in EqKinds /\ res.err = NoErr)
    => LET K == {k \in DOMAIN frag.m : IsNull(frag.m[k])}
           want == [k \in K |-> [sql |-> k \o (IF op = "NotEq" THEN <<" ", "I", "S", " ", "N", "O", "T", " ", "N", "U", "L", "L">> ELSE <<" ", "I", "S", " ", "N", "U", "L", "L">>),
                                 args |-> <<>>]]
       IN  K # {} => /\ res.sql = WithClauses(frag, K, want).sql
                     /\ res.args = WithClauses(frag, K, want).args

\* a nil pointer next to a plain nil and a bound value
C10_Witness ==
    /\ op = "Eq"
    /\ frag.m = (<<"B">> :> Nil) @@ (<<"a">> :> NilPtr) @@ (<<"a", "?">> :> Scalar(2))
    /\ res = Result(<<"B", " ", "I", "S", " ", "N", "U", "L", "L", " ", "A", "N", "D", " ", "a", " ", "I", "S", " ", "N", "U", "L", "L", " ", "A", "N", "D", " ", "a", "?", " ", "=", " ", "?">>, <<Scalar(2)>>, FALSE, NoErr)

\* C11 as stated: a Lt-family or Like-family map with a key whose value is
\* null (nil, a nil pointer, or a Valuer yielding nil) or a list returns an
\* error, whatever its other keys hold
C11_AsStated ==
    (op \in LtKinds \cup LikeKinds /\ \E k \in DOMAIN frag.m : IsNull(frag.m[k]) \/ IsList(frag.m[k]))
    => res.err # NoErr /\ res.sql = <<>>

\* C12 as stated: an empty Eq or NotEq map renders "(1=1)" without error and
\* with an argument list that is empty and not nil
C12_AsStated ==
    (op \in EqKinds /\ DOMAIN frag.m = {})
    => res.sql = sqlTrue /\ res.err = NoErr /\ res.args = <<>> /\ ~res.argsNil

\* C13 as stated: an empty Lt-family or Like-family map renders "(1=1)" with
\* no arguments and no error
C13_AsStated ==
    (op \in LtKinds \cup LikeKinds /\ DOMAIN frag.m = {})
    => res.sql = sqlTrue /\ res.args = <<>> /\ res.err = NoErr

\* C14: And with no children renders "(1=1)" and Or with no children
\* "(1=0)", both without error and with an argument list that is empty and
\* not nil
C14_EmptyConjunction ==
    (op \in ConjKinds /\ Len(frag.parts) = 0)
    => /\ res.sql = (IF op = "And" THEN <<"(", "1", "=", "1", ")">> ELSE <<"(", "1", "=", "0", ")">>)
       /\ res.args = <<>>
       /\ ~res.argsNil
       /\ res.err = NoErr

C14_Witness ==
    /\ op = "Or"
    /\ frag.parts = <<>>
    /\ res = Result(<<"(", "1", "=", "0", ")">>, <<>>, FALSE, NoErr)

\* the subsequence of the indices 1..n at which keep holds
RECURSIVE Kept(_, _)
Kept(keep, n) ==
    IF n = 0 THEN <<>>
    ELSE Kept(keep, n - 1) \o (IF keep[n] THEN <<n>> ELSE <<>>)

\* C15: a non-empty And / Or whose children all render without error skips
\* the children whose text is empty, with their arguments; its text is the
\* other children's texts joined by " AND " / " OR " inside one pair of
\* parentheses, or the empty text when no child is left; its arguments are
\* those children's arguments in child order
C15_ConjunctionJoin ==
    LET n == Len(frag.parts)
        r == [k \in 1..n |-> nestedToSQL(frag.parts[k])]
    IN  (op \in ConjKinds /\ n > 0 /\ \A k \in 1..n : r[k].err = NoErr)
        => LET live == Kept([k \in 1..n |-> r[k].sql # <<>>], n)
               m == Len(live)
               sep == IF op = "And" THEN <<" ", "A", "N", "D", " ">> ELSE <<" ", "O", "R", " ">>
           IN  /\ res.err = NoErr
               /\ res.sql = (IF m = 0 THEN <<>>
                             ELSE <<"(">> \o r[live[1]].sql
                                  \o Concat([j \in 1..(m - 1) |-> sep \o r[live[j + 1]].sql], m - 1)
                                  \o <<")">>)
               /\ res.args = Concat([j \in 1..m |-> r[live[j]].args], m)

\* an empty text with an argument, skipped before a two-marker child
C15_Witness ==
    /\ op = "Or"
    /\ frag.parts = <<FragEmptyArg, FragTwo>>
    /\ res = Result(<<"(", "?", " ", "@", "@", " ", "?", ")">>, <<Scalar(1), Scalar(2)>>, FALSE, NoErr)

\* the concatenation of f[lo], ..., f[hi], by halves
RECURSIVE Flat(_, _, _)
Flat(f, lo, hi) ==
    IF lo > hi THEN <<>>
    ELSE IF lo = hi THEN f[lo]
    ELSE Flat(f, lo, (lo + hi) \div 2) \o Flat(f, ((lo + hi) \div 2) + 1, hi)

\* a text without markers, with each of its escaped pairs turned into one
\* "?": of a run of "?" the second, fourth, ... are dropped
Collapsed(seg) ==
    LET before(i) == i - 1 - (CHOOSE a \in 0..(i - 1) :
                                /\ a = 0 \/ seg[a] # "?"
                                /\ \A j \in (a + 1)..(i - 1) : seg[j] = "?")
    IN  Flat([i \in 1..Len(seg) |-> IF seg[i] = "?" /\ before(i) % 2 = 1 THEN <<>> ELSE <<seg[i]>>],
             1, Len(seg))

\* the text with its k-th marker replaced by the quoted k-th argument and
\* each escaped pair by one "?"
Interpolated(text, args) ==
    LET pos == MarkerPos(text)
        n == Len(pos)
        seg == [k \in 0..n |->
                   SubSeq(text, (IF k = 0 THEN 0 ELSE pos[k]) + 1,
                                (IF k = n THEN Len(text) + 1 ELSE pos[k + 1]) - 1)]
    IN  Collapsed(seg[0])
        \o Concat([k \in 1..n |-> <<"'">> \o Sprint(args[k]) \o <<"'">> \o Collapsed(seg[k])], n)

\* C16: DebugSQLizer returns "[ToSQL error: ...]" when ToSQL fails; else a
\* "[DebugSQLizer error: too many placeholders ..." diagnostic when the
\* rendered text has more markers than there are arguments, a "not enough
\* placeholders" one when it has fewer, and when the two agree the text with
\* the k-th marker replaced by the quoted k-th argument and each "??" by "?"
C16_DebugDiagnostics ==
    op = "debug"
    => LET r == ToSQL(frag)
           n == Markers(r.sql)
           m == Len(r.args)
       IN  /\ r.err # NoErr => res.debug = <<"[ToSQL error: ", r.err, "]">>
           /\ (r.err = NoErr /\ n > m)
                => Len(res.debug) > 0 /\ res.debug[1] = "[DebugSQLizer error: too many placeholders in "
           /\ (r.err = NoErr /\ n < m)
                => Len(res.debug) > 0 /\ res.debug[1] = "[DebugSQLizer error: not enough placeholders in "
           /\ (r.err = NoErr /\ n = m) => res.debug = Interpolated(r.sql, r.args)

\* an escaped pair, and a marker filled from a nested fragment's argument
C16_Witness ==
    /\ op = "debug"
    /\ frag = Expr(<<"?", "?", "=", "?">>, <<FragNullif>>)
    /\ res.debug = <<"?", "=", "n", "(", "a", ",", "'", "1", "'", ")">>

\* the texts of the parts ps written one after the other with sep
Written(ps, sep) == appendToSQL(ps, <<>>, sep, <<>>, TRUE).w

\* the text of an UPDATE statement, clause by clause, before the rewrite
UpdateClauses(dd) ==
    LET n == Len(dd.SetClauses)
        set == [k \in 1..n |->
                  dd.SetClauses[k].column \o <<" ", "=", " ">>
                  \o (IF IsSQLizer(dd.SetClauses[k].value) THEN ToSQL(dd.SetClauses[k].value).sql
                      ELSE <<"?">>)]
    IN  (IF Len(dd.Prefixes) > 0 THEN Written(dd.Prefixes, <<" ">>) \o <<" ">> ELSE <<>>)
        \o <<"U", "P", "D", "A", "T", "E", " ">> \o dd.Table
        \o <<" ", "S", "E", "T", " ">> \o set[1] \o Concat([k \in 1..(n - 1) |-> <<",", " ">> \o set[k + 1]], n - 1)
        \o (IF Len(dd.WhereParts) > 0 THEN <<" ", "W", "H", "E", "R", "E", " ">> \o Written(dd.WhereParts, <<" ", "A", "N", "D", " ">>) ELSE <<>>)
        \o (IF Len(dd.OrderBys) > 0
            THEN <<" ", "O", "R", "D", "E", "R", " ", "B", "Y", " ">> \o dd.OrderBys[1]
                 \o Concat([k \in 1..(Len(dd.OrderBys) - 1) |-> <<",", " ">> \o dd.OrderBys[k + 1]],
                           Len(dd.OrderBys) - 1)
            ELSE <<>>)
        \o (IF Len(dd.Limit) > 0 THEN <<" ", "L", "I", "M", "I", "T", " ">> \o dd.Limit ELSE <<>>)
        \o (IF Len(dd.Offset) > 0 THEN <<" ", "O", "F", "F", "S", "E", "T", " ">> \o dd.Offset ELSE <<>>)
        \o (IF Len(dd.Suffixes) > 0 THEN <<" ">> \o Written(dd.Suffixes, <<" ">>) ELSE <<>>)

C18_StructuralErrors ==
    /\ (op = "update" /\ Len(d.Table) = 0) => res = Result(<<>>, <<>>, TRUE, ErrNoTable)
    /\ (op = "update" /\ Len(d.Table) > 0 /\ Len(d.SetClauses) = 0)
       => res = Result(<<>>, <<>>, TRUE, ErrNoSet)
    /\ (op = "case" /\ Len(d.WhenParts) = 0) => res = Result(<<>>, <<>>, TRUE, ErrNoWhen)
    /\ op \in {"updateMust", "caseMust"}
       => LET r == IF op = "updateMust" THEN UpdateToSQL(d) ELSE CaseToSQL(d)
              unmet == IF op = "updateMust" THEN Len(d.Table) = 0 \/ Len(d.SetClauses) = 0
                       ELSE Len(d.WhenParts) = 0
          IN  /\ res.panicked <=> r.err # NoErr
              /\ unmet => res.panicked
              /\ res.panicked => res.err = r.err
              /\ ~res.panicked => res.sql = r.sql /\ res.args = r.args

\* no table, and a Set clause whose fragment would fail to render
C18_Witness ==
    /\ op = "update"
    /\ d.Table = <<>>
    /\ d.SetClauses = <<setClause(<<"z">>, FragLtNull)>>
    /\ res = Result(<<>>, <<>>, TRUE, ErrNoTable)

\* C19 as stated: appendToSQL writes the texts of the parts whose text is not
\* empty, in order, with the separator between two written parts only, and
\* appends the arguments of the written parts in order; the first failing
\* part aborts with its error
C19_AsStated ==
    op = "append"
    => LET n == Len(frag.parts)
           r == [k \in 1..n |-> nestedToSQL(frag.parts[k])]
           live == Kept([k \in 1..n |-> r[k].sql # <<>>], n)
           m == Len(live)
           bad == {k \in 1..n : r[k].err # NoErr}
       IN  IF bad = {}
           THEN /\ res.err = NoErr
                /\ res.w = (IF m = 0 THEN <<>>
                            ELSE r[live[1]].sql
                                 \o Concat([j \in 1..(m - 1) |-> frag.sep \o r[live[j + 1]].sql], m - 1))
                /\ res.args = Concat([j \in 1..m |-> r[live[j]].args], m)
           ELSE res.err = r[CHOOSE k \in bad : \A j \in bad : k <= j].err

\* the text with its first k markers replaced by rep[1], ..., rep[k] and the
\* rest of the text, its further markers included, as it is
SpliceFirst(text, rep, k) ==
    LET pos == MarkerPos(text)
        seg == [j \in 0..k |->
                   SubSeq(text, (IF j = 0 THEN 0 ELSE pos[j]) + 1,
                                (IF j = k THEN Len(text) + 1 ELSE pos[j + 1]) - 1)]
    IN  seg[0] \o Concat([j \in 1..k |-> rep[j] \o seg[j]], k)

\* C20: expr.ToSQL returns on every text and argument list, and a mismatch of
\* markers and arguments is no error: the markers are filled left to right
\* while arguments are left; arguments beyond the last marker are appended
\* as they are, in order and not rendered, and the text after the last filled
\* marker is copied as it is, with the markers no argument is left for
C20_MismatchTolerated ==
    op = "expr"
    => LET n == Markers(frag.sql)
           m == Len(frag.args)
           k == IF n < m THEN n ELSE m
           r == [j \in 1..k |-> IF IsSQLizer(frag.args[j]) THEN ToSQL(frag.args[j])
                                ELSE Result(<<"?">>, <<frag.args[j]>>, FALSE, NoErr)]
       IN  /\ res.err \in {NoErr} \cup {r[j].err : j \in 1..k}
           /\ (\A j \in 1..k : r[j].err = NoErr)
              => /\ res.err = NoErr
                 /\ res.sql = SpliceFirst(frag.sql, [j \in 1..k |-> r[j].sql], k)
                 /\ res.args = Concat([j \in 1..k |-> r[j].args], k) \o SubSeq(frag.args, k + 1, m)

\* a second argument beyond the only marker: a fragment that would fail to
\* render is returned as an argument
C20_Witness ==
    /\ op = "expr"
    /\ frag = Expr(<<"f", "(", "?", ")">>, <<FragNullif, FragLtNull>>)
    /\ res = Result(<<"f", "(", "n", "(", "a", ",", "?", ")", ")">>, <<Scalar(1), FragLtNull>>, FALSE, NoErr)

\* the WriteSQL calls of the call sequence cs whose fragment fails to render
FailedCalls(cs) ==
    {j \in 1..Len(cs) : cs[j].call = "WriteSQL" /\ nestedToSQL(cs[j].item).err # NoErr}

\* the first of them, 0 when every fragment renders
FirstFailure(cs) ==
    IF FailedCalls(cs) = {} THEN 0 ELSE CHOOSE j \in FailedCalls(cs) : \A k \in FailedCalls(cs) : j <= k

\* the text, arguments and error a buffer is to hold after the calls cs: every
\* WriteString writes its text; a WriteSQL before the first failure writes its
\* fragment's text and one space and appends its arguments; the failing
\* WriteSQL and every later one write nothing and append nothing
Accumulated(cs) ==
    LET n == Len(cs)
        f == FirstFailure(cs)
        live(j) == cs[j].call = "WriteSQL" /\ (f = 0 \/ j < f)
    IN  [sql  |-> Concat([j \in 1..n |-> IF cs[j].call = "WriteString" THEN cs[j].str
                                         ELSE IF live(j) THEN nestedToSQL(cs[j].item).sql \o <<" ">>
                                         ELSE <<>>], n),
         args |-> Concat([j \in 1..n |-> IF live(j) THEN nestedToSQL(cs[j].item).args ELSE <<>>], n),
         err  |-> IF f = 0 THEN NoErr ELSE nestedToSQL(cs[f].item).err]

\* the calls caseData.ToSQL makes on its buffer, in order
CaseCalls(dd) ==
    LET str(x) == [call |-> "WriteString", str |-> x]
        sql(x) == [call |-> "WriteSQL", item |-> x]
        n == Len(dd.WhenParts)
    IN  <<str(<<"C", "A", "S", "E", " ">>)>>
        \o (IF dd.What.t # "none" THEN <<sql(dd.What)>> ELSE <<>>)
        \o Concat([j \in 1..n |-> <<str(<<"W", "H", "E", "N", " ">>), sql(dd.WhenParts[j].when),
                                    str(<<"T", "H", "E", "N", " ">>), sql(dd.WhenParts[j].then)>>], n)
        \o (IF dd.Else.t # "none" THEN <<str(<<"E", "L", "S", "E", " ">>), sql(dd.Else)>> ELSE <<>>)
        \o <<str(<<"E", "N", "D">>)>>

\* the buffer after any sequence of calls holds what the calls before the
\* first failure have written, and the first failure's error
BufferHolds ==
    /\ op \in {"buffer", "bufferToSQL"}
       => LET a == Accumulated(frag.calls)
          IN  d.buf = a.sql /\ d.args = a.args /\ d.err = a.err
    /\ op = "bufferToSQL"
       => LET a == Accumulated(frag.calls)
          IN  res.sql = a.sql /\ res.args = a.args /\ res.err = a.err
    /\ (op = "case" /\ Len(d.WhenParts) > 0)
       => LET a == Accumulated(CaseCalls(d))
          IN  res.sql = a.sql /\ res.args = a.args /\ res.err = a.err

\* a call on a buffer that holds an error keeps the error and the arguments,
\* and a WriteSQL among them keeps the text
BufferStep ==
    (op = "buffer" /\ d.err # NoErr /\ Len(frag'.calls) > Len(frag.calls))
    => /\ d'.err = d.err
       /\ d'.args = d.args
       /\ frag'.calls[Len(frag'.calls)].call = "WriteSQL" => d'.buf = d.buf

\* C21: for any sequence of WriteSQL and WriteString calls on a sqlizerBuffer,
\* once a WriteSQL has failed the stored error stays that first error, the
\* arguments never change again, no later WriteSQL writes text, and ToSQL of
\* the buffer, and so of a Case expression, returns that first error; before
\* the failure each WriteSQL appends its fragment's text and one space, and
\* its arguments in call order
C21_FirstErrorSticks == []BufferHolds /\ [][BufferStep]_vars

\* a failed WriteSQL, then a WriteSQL of a fragment that renders with an
\* argument, then a WriteSQL that would fail with another error: the buffer
\* holds the first error, no text and no argument
C21_Witness ==
    /\ op = "bufferToSQL"
    /\ frag.calls = <<[call |-> "WriteSQL", item |-> newPart(BadPred, <<>>)],
                      [call |-> "WriteSQL", item |-> newPart(FragNullif, <<>>)],
                      [call |-> "WriteSQL", item |-> newPart(FragLtNull, <<>>)]>>
    /\ res.sql = <<>> /\ res.args = <<>>
    /\ res.err = nestedToSQL(newPart(BadPred, <<>>)).err
    /\ res.err # NoErr
    /\ res.err # nestedToSQL(newPart(FragLtNull, <<>>)).err

====
